---- MODULE Spec2Model ----
(***************************************************************************)
(* Trellis: the builder, the three-phase runner, the state wrapper's       *)
(* convergence / termination policy and the killswitch producers.          *)
(*                                                                         *)
(* The runner thread is modelled step by step: every call into the user's  *)
(* calculation is a call step followed by a return step, and every atomic  *)
(* load of a killswitch flag is a step of its own, so the producers (the   *)
(* token waiter thread, a Ctrl-C event) interleave with the runner exactly *)
(* where the code lets them.                                               *)
(***************************************************************************)
EXTENDS Integers, Sequences, FiniteSets, TLC

(***************************************************************************)
(* Bounds of the model.                                                    *)
(***************************************************************************)
\* configure(|s| s.max_iters(N)) is explored for N in 0..MaxN
MaxN == 5
\* finite error estimates returned by the user state's update: 0..MaxErr
MaxErr == 1

\* update calls made on the state wrapper taken alone
MaxUpdates == 3
\* observers attached to one runner
MaxObservers == 2
\* the frequencies Every(n) tried: n in 1..MaxEvery
MaxEvery == 3
\* next calls of the longest observed run
ObsIterations == 10

(***************************************************************************)
(* Floats.  Error estimates and tolerances are floats in the code; the     *)
(* model counts them in units of the machine epsilon, so that the default  *)
(* tolerance is 1, and encodes the two infinities and NaN as the integers   *)
(* below.                                                                  *)
(***************************************************************************)
PosInf == 1000000
NegInf == -1000000
NaN == 7777777
Epsilon == 1
\* usize::MAX, the default max_iter; iter never comes near it in the model
UsizeMax == 2147483647

is_infinite(x) == x = PosInf \/ x = NegInf
is_sign_positive(x) == x >= 0
\* the float comparison `a < b`: false when either side is NaN
Lt(a, b) == a # NaN /\ b # NaN /\ a < b

\* what UserState::update may return
ErrorEstimates == (0..MaxErr) \cup {PosInf, NaN}
\* the estimates tried on the state wrapper alone: negative infinity as well
UpdateEstimates == ErrorEstimates \cup {NegInf}
\* tolerances a configure closure may set
Tolerances == 0..MaxErr
\* the model stops starting iterations here when max_iter is left at usize::MAX
IterCap == MaxN + 2

(***************************************************************************)
(* Status and Cause (state.rs)                                             *)
(***************************************************************************)
Causes == {"ControlC", "Controller", "Converged", "ExceededMaxIterations"}
NotTerminated == [terminated |-> FALSE, cause |-> "None"]
Terminated(c) == [terminated |-> TRUE, cause |-> c]

\* impl From<Caller> for Cause
CauseOfCaller(caller) == IF caller = "CtrlC" THEN "ControlC" ELSE "Controller"

(***************************************************************************)
(* The state wrapper, State<S>                                             *)
(***************************************************************************)
\* S::new(): the user state.  is_initialised is the answer its is_initialised
\* gives; updates counts the calls of its update, and bests the calls of its
\* last_was_best since its update was last called
NewUserState(user_initialised) ==
    [is_initialised |-> user_initialised, updates |-> 0, bests |-> 0]

\* a bug: iterations are numbered from 1 in last_best_iter
NewState_BestIterFromOne(user_initialised) ==
    [ specific |-> NewUserState(user_initialised),
      some |-> TRUE,
      iter |-> 0,
      last_best_iter |-> 1,
      max_iter |-> UsizeMax,
      termination_status |-> NotTerminated,
      time |-> FALSE,
      relative_tolerance |-> Epsilon,
      error |-> PosInf,
      prev_error |-> PosInf,
      best_error |-> PosInf,
      prev_best_error |-> PosInf ]

\* State::new(); `some` is whether the Option `specific` holds the user state
NewState(user_initialised) ==
    [ specific |-> NewUserState(user_initialised),
      some |-> TRUE,
      iter |-> 0,
      last_best_iter |-> 0,
      max_iter |-> UsizeMax,
      termination_status |-> NotTerminated,
      time |-> FALSE,
      relative_tolerance |-> Epsilon,
      error |-> PosInf,
      prev_error |-> PosInf,
      best_error |-> PosInf,
      prev_best_error |-> PosInf ]

record_time(s) == [s EXCEPT !.time = TRUE]

\* a bug: the iteration counter advances by two
increment_iteration_ByTwo(s) == [s EXCEPT !.iter = s.iter + 2]

increment_iteration(s) == [s EXCEPT !.iter = s.iter + 1]

current_iteration(s) == s.iter

\* a bug: the wrapper never reports initialised
is_initialised_Never(s) == FALSE

\* State::is_initialised: map_or(false, |state| state.is_initialised())
is_initialised(s) == s.some /\ s.specific.is_initialised

\* CoreState::is_initialised of state.rs: self.specific.is_some()
CoreState_is_initialised(s) == s.some

\* State::take_specific: the user state moves out to the calculation
take_specific(s) == [s EXCEPT !.some = FALSE]

\* State::set_specific: the user state the calculation returned moves back
set_specific(s) == [s EXCEPT !.some = TRUE]

\* a bug: only convergence counts as terminated
is_terminated_OnlyConverged(s) == s.termination_status = Terminated("Converged")

is_terminated(s) == s.termination_status # NotTerminated

terminate_due_to(s, reason) == [s EXCEPT !.termination_status = Terminated(reason)]

\* None is "None"
termination_cause(s) == s.termination_status.cause

max_iters(s, n) == [s EXCEPT !.max_iter = n]

relative_tolerance(s, t) == [s EXCEPT !.relative_tolerance = t]

\* a bug: the cap is reached one iteration late
exceeds_max_iter_Late(s) == current_iteration(s) - 1 > s.max_iter

\* a bug: the cap is reached one iteration early
exceeds_max_iter_Early(s) == current_iteration(s) >= s.max_iter

\* `self.current_iteration() > self.max_iter` in State::update
exceeds_max_iter(s) == current_iteration(s) > s.max_iter

\* a bug: the clause for two infinities of one sign is left out
is_best_StrictOnly(s) == Lt(s.error, s.best_error)

\* a bug: every update counts as the best
is_best_Always(s) == TRUE

\* a bug: no update counts as the best
is_best_Never(s) == FALSE

\* the test of State::update for "this error is the best so far"
is_best(s) ==
    \/ Lt(s.error, s.best_error)
    \/ /\ is_infinite(s.error)
       /\ is_infinite(s.best_error)
       /\ is_sign_positive(s.error) = is_sign_positive(s.best_error)

\* State::update, with e the estimate the user state's update returned
update(s, e) ==
    LET s1 == [s EXCEPT !.error = e,
                        !.specific.updates = s.specific.updates + 1,
                        !.specific.bests = 0]
        s2 == IF is_best(s1)
              THEN [s1 EXCEPT !.prev_best_error = s1.best_error,
                              !.best_error = s1.error,
                              !.last_best_iter = s1.iter,
                              !.specific.bests = s1.specific.bests + 1]
              ELSE s1
    IN  IF Lt(s2.error, s2.relative_tolerance)
        THEN terminate_due_to(s2, "Converged")
        ELSE IF exceeds_max_iter(s2)
             THEN terminate_due_to(s2, "ExceededMaxIterations")
             ELSE s2

(***************************************************************************)
(* Result of run                                                           *)
(***************************************************************************)
Pending == [kind |-> "Pending", cause |-> "None", result |-> "None"]
OkOutput == [kind |-> "Ok", cause |-> "None", result |-> "Some"]
\* TrellisError { cause, result: Some(result) }
TrellisError(cause) == [kind |-> "Err", cause |-> cause, result |-> "Some"]
\* a bug: the user error is reported as the iteration cap
FromUserError_AsMaxIter == [kind |-> "Err", cause |-> "MaxIterExceeded", result |-> "None"]

\* impl From<E> for TrellisError: what `?` makes of a calculation's error
FromUserError == [kind |-> "Err", cause |-> "User", result |-> "None"]

\* a bug: the two killswitch arms are swapped
ErrorCauseOf_Swapped(cause) ==
    CASE cause = "ControlC" -> "CancellationToken"
      [] cause = "Controller" -> "ControlC"
      [] cause = "Converged" -> "None"
      [] cause = "ExceededMaxIterations" -> "MaxIterExceeded"
      [] OTHER -> "unreachable"

\* the match on termination_cause in run; "None" is the Converged arm
ErrorCauseOf(cause) ==
    CASE cause = "ControlC" -> "ControlC"
      [] cause = "Controller" -> "CancellationToken"
      [] cause = "Converged" -> "None"
      [] cause = "ExceededMaxIterations" -> "MaxIterExceeded"
      [] OTHER -> "unreachable"

RunReturn(error_cause) ==
    IF error_cause # "None" THEN TrellisError(error_cause) ELSE OkOutput

VARIABLES
    pc,                  \* where the builder / runner thread is
    control_c,           \* Builder.control_c, then Runner.control_c
    time,                \* Builder.time, then Runner.time
    cancellation_token,  \* "unit", "token", or "taken" once moved to the waiter
    state,               \* the state wrapper
    signals,             \* Runner.signals: the callers, in attachment order
    flags,               \* the AtomicBool of each caller's killswitch
    ctrlc_handler,       \* the process's Ctrl-C disposition
    waiter,              \* the "kill_signal" thread
    poll_i,              \* index of the signal the poll loads next
    cause,               \* run's local `cause`
    calls,               \* the calls made on the calculation, in order
    failed,              \* the phase that returned an error, or "none"
    dispatched,          \* stages handed to observers.update, in order
    ret,                 \* what run returned
    observers,           \* the ObserverVec: (Weak, Frequency) in attachment order
    observed,            \* per attached observer, its observe calls, in order
    borrowed,            \* the state the latest observe calls were lent, if any
    cancelled,           \* whether cancel() has been called on the CancellationToken
    late_nexts           \* history: the next calls started with a killswitch already set

vars == << pc, control_c, time, cancellation_token, state, signals, flags,
           ctrlc_handler, waiter, poll_i, cause, calls, failed,
           dispatched, ret, observers, observed, borrowed, cancelled, late_nexts >>

Callers == {"CtrlC", "Controller"}

NoFlags == [c \in Callers |-> FALSE]

\* Killswitch::is_dead on the i-th signal: one SeqCst load
is_dead(i) == flags[signals[i]]

(***************************************************************************)
(* Builder                                                                 *)
(***************************************************************************)
\* Runner::initialise_control_c: makes the flag (false) and returns it.  The
\* registration of the handler is commented out, so the process's Ctrl-C
\* disposition h is what it was.
initialise_control_c(h) == h

\* a bug: the token's killswitch is attached before the Ctrl-C one
initialise_controllers_TokenFirst(cc, tok) ==
    (IF tok = "token" THEN << "Controller" >> ELSE << >>) \o
    (IF cc THEN << "CtrlC" >> ELSE << >>)

\* a bug: the Ctrl-C killswitch is attached whether or not Ctrl-C is enabled
initialise_controllers_AlwaysCtrlC(cc, tok) ==
    << "CtrlC" >> \o (IF tok = "token" THEN << "Controller" >> ELSE << >>)

\* InitialiseRunner::initialise_controllers, for both impls: the signals in
\* attachment order.  tok is "unit" for Runner<C, P, S, ()>.
initialise_controllers(cc, tok) ==
    (IF cc THEN << "CtrlC" >> ELSE << >>) \o
    (IF tok = "token" THEN << "Controller" >> ELSE << >>)

\* the Builder the builder thread holds
TheBuilder ==
    [ state |-> state, time |-> time, control_c |-> control_c,
      cancellation_token |-> cancellation_token, observers |-> observers ]

\* the builder thread goes on with the Builder bd
BuilderBecomes(bd) ==
    /\ state' = bd.state
    /\ time' = bd.time
    /\ control_c' = bd.control_c
    /\ cancellation_token' = bd.cancellation_token
    /\ observers' = bd.observers
    /\ UNCHANGED << pc, signals, flags, ctrlc_handler, waiter, poll_i, cause,
                    calls, failed, dispatched, ret, observed, borrowed, cancelled, late_nexts >>

\* Builder::control_c
control_c_(bd, b) == [bd EXCEPT !.control_c = b]

\* Builder::time
time_(bd, b) == [bd EXCEPT !.time = b]

\* Builder::configure, configured being what the closure made of bd.state
configure(bd, configured) == [bd EXCEPT !.state = configured]

\* a bug: the new Builder is made with the default control_c
with_cancellation_token_DropsControlC(bd) ==
    [ state |-> bd.state, time |-> bd.time, control_c |-> FALSE,
      cancellation_token |-> "token", observers |-> bd.observers ]

\* Builder<C, P, S, ()>::with_cancellation_token: a new Builder, every field
\* moved over from the old one but the token
with_cancellation_token(bd) ==
    [ state |-> bd.state, time |-> bd.time, control_c |-> bd.control_c,
      cancellation_token |-> "token", observers |-> bd.observers ]

\* Builder::control_c
BuilderControlC(b) ==
    /\ pc = "builder"
    /\ BuilderBecomes(control_c_(TheBuilder, b))

\* Builder::time
BuilderTime(b) ==
    /\ pc = "builder"
    /\ BuilderBecomes(time_(TheBuilder, b))

\* Builder::configure with the closure |s| s.max_iters(n)
BuilderConfigureMaxIters(n) ==
    /\ pc = "builder"
    /\ BuilderBecomes(configure(TheBuilder, max_iters(state, n)))

\* Builder::configure with the closure |s| s.relative_tolerance(t)
BuilderConfigureTolerance(t) ==
    /\ pc = "builder"
    /\ BuilderBecomes(configure(TheBuilder, relative_tolerance(state, t)))

\* Builder<C, P, S, ()>::with_cancellation_token
BuilderWithCancellationToken ==
    /\ pc = "builder"
    /\ cancellation_token = "unit"
    /\ BuilderBecomes(with_cancellation_token(TheBuilder))

\* a bug: finalise swallows the error of a failed spawn and hands out a runner
BuilderFinalise_IgnoresSpawnError(spawn_ok) ==
    /\ pc = "builder"
    /\ ctrlc_handler' = IF control_c THEN initialise_control_c(ctrlc_handler)
                        ELSE ctrlc_handler
    /\ IF cancellation_token = "token"
       THEN /\ cancellation_token' = "taken"
            /\ waiter' = IF spawn_ok THEN "blocked" ELSE "none"
            /\ signals' = initialise_controllers(control_c, cancellation_token)
            /\ pc' = "created"
       ELSE /\ spawn_ok
            /\ signals' = initialise_controllers(control_c, cancellation_token)
            /\ pc' = "created"
            /\ UNCHANGED << cancellation_token, waiter >>
    /\ UNCHANGED << control_c, time, state, flags, poll_i, cause, calls,
                    failed, dispatched, ret, observers, observed, borrowed, cancelled, late_nexts >>

\* Builder::finalise.  With a token, initialise_kill_signal_handler takes the
\* token and set_handler spawns the waiter thread; the spawn may fail, and
\* then finalise returns the error and there is no runner.
BuilderFinalise(spawn_ok) ==
    /\ pc = "builder"
    /\ ctrlc_handler' = IF control_c THEN initialise_control_c(ctrlc_handler)
                        ELSE ctrlc_handler
    /\ IF cancellation_token = "token"
       THEN /\ cancellation_token' = "taken"
            /\ IF spawn_ok
               THEN /\ waiter' = "blocked"
                    /\ signals' = initialise_controllers(control_c, cancellation_token)
                    /\ pc' = "created"
               ELSE /\ waiter' = "none"
                    /\ signals' = initialise_controllers(control_c, "unit")
                    /\ pc' = "build_failed"
       ELSE /\ spawn_ok
            /\ signals' = initialise_controllers(control_c, cancellation_token)
            /\ pc' = "created"
            /\ UNCHANGED << cancellation_token, waiter >>
    /\ UNCHANGED << control_c, time, state, flags, poll_i, cause, calls,
                    failed, dispatched, ret, observers, observed, borrowed, cancelled, late_nexts >>

(***************************************************************************)
(* Killswitch producers                                                    *)
(***************************************************************************)
ProcessAlive == pc # "killed"

\* the waiter thread: receiver.blocking_recv_kill_signal() returns, Ok or Err;
\* the result is dropped
WaiterRecvReturns ==
    /\ ProcessAlive
    /\ waiter = "blocked"
    /\ \E r \in {"Ok", "Err"} :
          waiter' = IF r = "Ok" THEN "returned_ok" ELSE "returned_err"
    /\ UNCHANGED << pc, control_c, time, cancellation_token, state, signals,
                    flags, ctrlc_handler, poll_i, cause, calls, failed,
                    dispatched, ret, observers, observed, borrowed, cancelled, late_nexts >>

\* the waiter thread when the receiver is a tokio CancellationToken:
\* blocking_recv_kill_signal is Ok(self.cancelled_owned()), which builds the
\* future and returns it without polling it
CancellationTokenRecvReturns ==
    /\ ProcessAlive
    /\ waiter = "blocked"
    /\ waiter' = "returned_ok"
    /\ UNCHANGED << pc, control_c, time, cancellation_token, state, signals,
                    flags, ctrlc_handler, poll_i, cause, calls, failed,
                    dispatched, ret, observers, observed, borrowed, cancelled, late_nexts >>

\* the owner of the token calls cancel() on its clone
TokenCancel ==
    /\ ProcessAlive
    /\ cancellation_token = "taken"
    /\ ~cancelled
    /\ cancelled' = TRUE
    /\ UNCHANGED << pc, control_c, time, cancellation_token, state, signals,
                    flags, ctrlc_handler, waiter, poll_i, cause, calls, failed,
                    dispatched, ret, observers, observed, borrowed,
                    late_nexts >>

\* a bug: the closure is called only when the receive returned Ok
WaiterHandleKillSignal_OkOnly ==
    /\ ProcessAlive
    /\ waiter \in {"returned_ok", "returned_err"}
    /\ waiter' = IF waiter = "returned_ok" THEN "finished_ok" ELSE "finished_err"
    /\ flags' = [flags EXCEPT !["Controller"] = @ \/ waiter = "returned_ok"]
    /\ UNCHANGED << pc, control_c, time, cancellation_token, state, signals,
                    ctrlc_handler, poll_i, cause, calls, failed, dispatched,
                    ret, observers, observed, borrowed, cancelled, late_nexts >>

\* a bug: the closure also terminates the state wrapper
WaiterHandleKillSignal_TerminatesState ==
    /\ ProcessAlive
    /\ waiter \in {"returned_ok", "returned_err"}
    /\ waiter' = IF waiter = "returned_ok" THEN "finished_ok" ELSE "finished_err"
    /\ flags' = [flags EXCEPT !["Controller"] = TRUE]
    /\ state' = terminate_due_to(state, "Controller")
    /\ UNCHANGED << pc, control_c, time, cancellation_token, signals,
                    ctrlc_handler, poll_i, cause, calls, failed, dispatched,
                    ret, observers, observed, borrowed, cancelled, late_nexts >>

\* the waiter thread: handle_kill_signal(), the closure of
\* initialise_kill_signal_handler: state.store(true, SeqCst)
WaiterHandleKillSignal ==
    /\ ProcessAlive
    /\ waiter \in {"returned_ok", "returned_err"}
    /\ waiter' = IF waiter = "returned_ok" THEN "finished_ok" ELSE "finished_err"
    /\ flags' = [flags EXCEPT !["Controller"] = TRUE]
    /\ UNCHANGED << pc, control_c, time, cancellation_token, state, signals,
                    ctrlc_handler, poll_i, cause, calls, failed, dispatched,
                    ret, observers, observed, borrowed, cancelled, late_nexts >>

RunningPcs == {"initialising", "kill_signal_received", "kill_cause",
               "loop_guard", "in_next", "finalising"}

\* A Ctrl-C reaches the process while run is executing.  A registered handler
\* stores true into the CtrlC flag; with the default disposition the process
\* is terminated.
CtrlCEvent ==
    /\ pc \in RunningPcs
    /\ IF ctrlc_handler = "store_flag"
       THEN /\ flags' = [flags EXCEPT !["CtrlC"] = TRUE]
            /\ pc' = pc
       ELSE /\ pc' = "killed"
            /\ flags' = flags
    /\ UNCHANGED << control_c, time, cancellation_token, state, signals,
                    ctrlc_handler, waiter, poll_i, cause, calls, failed,
                    dispatched, ret, observers, observed, borrowed, cancelled, late_nexts >>

(***************************************************************************)
(* Observers                                                               *)
(***************************************************************************)
Never == [kind |-> "Never", n |-> 0]
Always == [kind |-> "Always", n |-> 0]
Every(n) == [kind |-> "Every", n |-> n]
Last == [kind |-> "Last", n |-> 0]
Frequencies == {Never, Always, Last} \cup {Every(n) : n \in 1..MaxEvery}

\* what an observer is handed: the stage of the dispatch and the state, of
\* which the iteration number is kept
Observation(stage, s) == [stage |-> stage, iter |-> s.iter]

\* ObserverVec::attach: the Arc is downgraded and the pair pushed.  `arc`
\* names the allocation the Weak points to (the same observer attached twice
\* gives two entries of one allocation); `strong` is whether a strong
\* reference to it is left once attach has returned
ObserverVec_attach(obs, arc, strong, frequency) ==
    Append(obs, [arc |-> arc, strong |-> strong, frequency |-> frequency])

\* ObserverVec::update: every entry whose Weak upgrades observes the subject
ObserverVec_update(obs, seen, subject) ==
    [i \in 1..Len(obs) |->
        IF obs[i].strong THEN Append(seen[i], subject) ELSE seen[i]]

\* ObserverVec::update: the state its observe calls borrow; with no entry
\* left to upgrade there is no observe call
ObserverVec_update_subject(obs, lent, subject) ==
    IF \E i \in 1..Len(obs) : obs[i].strong THEN << subject >> ELSE lent

\* the allocation of an Arc created inside Builder::attach_observer: no Arc
\* to it is left, so no caller can name it
Dropped == 0

\* the Arcs a caller of observers_mut holds, one per observer
Arcs == 1..MaxObservers

\* Builder::attach_observer: the Arc is created in the call and moved into
\* attach, which drops it on return, so no strong reference is left
BuilderAttachObserver(f) ==
    /\ pc = "builder"
    /\ Len(observers) < MaxObservers
    /\ observers' = ObserverVec_attach(observers, Dropped, FALSE, f)
    /\ observed' = Append(observed, << >>)
    /\ borrowed' = borrowed
    /\ UNCHANGED << pc, control_c, time, cancellation_token, state, signals,
                    flags, ctrlc_handler, waiter, poll_i, cause, calls,
                    failed, dispatched, ret, cancelled, late_nexts >>

\* runner.observers_mut().attach(observer.clone(), f) with the caller's Arc
\* a, attached before or not: the caller keeps its own Arc, which stays
\* alive over the run
ObserversMutAttach(a, f) ==
    /\ pc = "created"
    /\ Len(observers) < MaxObservers
    /\ observers' = ObserverVec_attach(observers, a, TRUE, f)
    /\ observed' = Append(observed, << >>)
    /\ borrowed' = borrowed
    /\ UNCHANGED << pc, control_c, time, cancellation_token, state, signals,
                    flags, ctrlc_handler, waiter, poll_i, cause, calls,
                    failed, dispatched, ret, cancelled, late_nexts >>

\* ObserverVec::detach: retain keeps the entries whose Weak does not point
\* to the allocation of the Arc passed in
ObserverVec_detach(obs, observer) ==
    SelectSeq(obs, LAMBDA f : f.arc # observer)

\* the places in the list of the entries that detach retains, in order
Retained(obs, observer) ==
    SelectSeq([j \in 1..Len(obs) |-> j], LAMBDA j : obs[j].arc # observer)

\* runner.observers_mut().detach(observer) before run, with the caller's
\* Arc a: every entry of that observer leaves the list, and none when it was
\* not attached
ObserversMutDetach(a) ==
    /\ pc = "created"
    /\ observers' = ObserverVec_detach(observers, a)
    /\ observed' = [k \in 1..Len(Retained(observers, a)) |->
                        observed[Retained(observers, a)[k]]]
    /\ borrowed' = borrowed
    /\ UNCHANGED << pc, control_c, time, cancellation_token, state, signals,
                    flags, ctrlc_handler, waiter, poll_i, cause, calls,
                    failed, dispatched, ret, cancelled, late_nexts >>

(***************************************************************************)
(* Runner::run                                                             *)
(***************************************************************************)
\* the call Runner::initialise makes on the calculation
initialise(cs) == Append(cs, "initialise")

\* the call Runner::once makes on the calculation
once(cs) == Append(cs, "next")

\* a bug: run returns without calling calculation.finalise
finalise_Skipped(cs) == cs

\* the call Runner::finalise makes on the calculation
finalise(cs) == Append(cs, "finalise")

\* a bug: run looks at the killswitches first and skips initialise when one
\* is set
RunStart_KilledSkipsInitialise ==
    /\ pc = "created"
    /\ IF ~is_initialised(state) /\ ~\E i \in 1..Len(signals) : is_dead(i)
       THEN /\ calls' = initialise(calls)
            /\ state' = take_specific(state)
            /\ pc' = "initialising"
       ELSE /\ calls' = calls
            /\ state' = state
            /\ pc' = "kill_signal_received"
    /\ poll_i' = 1
    /\ UNCHANGED << control_c, time, cancellation_token, signals,
                    flags, ctrlc_handler, waiter, cause, failed, dispatched,
                    ret, observers, observed, borrowed, cancelled, late_nexts >>

\* run up to the first call: the wrapped state is taken and, when it reports
\* not-initialised, Runner::initialise calls calculation.initialise
RunStart ==
    /\ pc = "created"
    /\ IF ~is_initialised(state)
       THEN /\ calls' = initialise(calls)
            /\ state' = take_specific(state)
            /\ pc' = "initialising"
       ELSE /\ calls' = calls
            /\ state' = state
            /\ pc' = "kill_signal_received"
    /\ poll_i' = 1
    /\ UNCHANGED << control_c, time, cancellation_token, signals,
                    flags, ctrlc_handler, waiter, cause, failed, dispatched,
                    ret, observers, observed, borrowed, cancelled, late_nexts >>

\* Runner::initialise from the return of calculation.initialise: on Ok the
\* wrapper is updated (the user state's update returns e) and the observers
\* are handed Stage::Initialisation; on Err `?` returns from run
InitialiseReturns(ok, e) ==
    /\ pc = "initialising"
    /\ IF ok
       THEN /\ state' = update(set_specific(state), e)
            /\ dispatched' = Append(dispatched, "Initialisation")
            /\ observed' = ObserverVec_update(observers, observed,
                                Observation("Initialisation", state'))
            /\ borrowed' = ObserverVec_update_subject(observers, borrowed,
                                state')
            /\ pc' = "kill_signal_received"
            /\ UNCHANGED << failed, ret >>
       ELSE /\ failed' = "initialise"
            /\ ret' = FromUserError
            /\ pc' = "done"
            /\ UNCHANGED << state, dispatched, observed, borrowed >>
    /\ poll_i' = 1
    /\ UNCHANGED << control_c, time, cancellation_token, signals, flags,
                    ctrlc_handler, waiter, cause, calls, observers,
                    cancelled, late_nexts >>

\* a bug: kill_signal_received consumes the flag it finds set (swap(false))
KillSignalReceived_ConsumesFlag ==
    /\ pc = "kill_signal_received"
    /\ IF poll_i > Len(signals)
       THEN /\ pc' = "loop_guard"
            /\ poll_i' = 1
            /\ flags' = flags
       ELSE IF is_dead(poll_i)
            THEN /\ pc' = "kill_cause"
                 /\ poll_i' = 1
                 /\ flags' = [flags EXCEPT ![signals[poll_i]] = FALSE]
            ELSE /\ pc' = pc
                 /\ poll_i' = poll_i + 1
                 /\ flags' = flags
    /\ UNCHANGED << control_c, time, cancellation_token, state, signals,
                    ctrlc_handler, waiter, cause, calls, failed,
                    dispatched, ret, observers, observed, borrowed, cancelled, late_nexts >>

\* a bug: kill_signal_received looks at the first killswitch only
KillSignalReceived_FirstOnly ==
    /\ pc = "kill_signal_received"
    /\ IF poll_i > 1 \/ poll_i > Len(signals)
       THEN /\ pc' = "loop_guard"
            /\ poll_i' = 1
       ELSE IF is_dead(poll_i)
            THEN /\ pc' = "kill_cause"
                 /\ poll_i' = 1
            ELSE /\ pc' = pc
                 /\ poll_i' = poll_i + 1
    /\ UNCHANGED << control_c, time, cancellation_token, state, signals,
                    flags, ctrlc_handler, waiter, cause, calls, failed,
                    dispatched, ret, observers, observed, borrowed, cancelled,
                    late_nexts >>

\* a bug: with a token attached the loop head waits until the waiter thread
\* has set its flag
KillSignalReceived_WaitsForWaiter ==
    /\ pc = "kill_signal_received"
    /\ waiter \in {"none", "finished_ok", "finished_err"}
    /\ IF poll_i > Len(signals)
       THEN /\ pc' = "loop_guard"
            /\ poll_i' = 1
       ELSE IF is_dead(poll_i)
            THEN /\ pc' = "kill_cause"
                 /\ poll_i' = 1
            ELSE /\ pc' = pc
                 /\ poll_i' = poll_i + 1
    /\ UNCHANGED << control_c, time, cancellation_token, state, signals,
                    flags, ctrlc_handler, waiter, cause, calls, failed,
                    dispatched, ret, observers, observed, borrowed, cancelled, late_nexts >>

\* loop head, Runner::kill_signal_received: any() loads the flags in
\* attachment order and stops at the first that is set
KillSignalReceived ==
    /\ pc = "kill_signal_received"
    /\ IF poll_i > Len(signals)
       THEN /\ pc' = "loop_guard"
            /\ poll_i' = 1
       ELSE IF is_dead(poll_i)
            THEN /\ pc' = "kill_cause"
                 /\ poll_i' = 1
            ELSE /\ pc' = pc
                 /\ poll_i' = poll_i + 1
    /\ UNCHANGED << control_c, time, cancellation_token, state, signals,
                    flags, ctrlc_handler, waiter, cause, calls, failed,
                    dispatched, ret, observers, observed, borrowed, cancelled, late_nexts >>

\* a bug: kill_cause consumes the flag it finds set (swap(false))
KillCause_ConsumesFlag ==
    /\ pc = "kill_cause"
    /\ IF poll_i > Len(signals)
       THEN /\ pc' = "panicked"
            /\ UNCHANGED << state, poll_i, flags >>
       ELSE IF is_dead(poll_i)
            THEN /\ state' = terminate_due_to(state, CauseOfCaller(signals[poll_i]))
                 /\ flags' = [flags EXCEPT ![signals[poll_i]] = FALSE]
                 /\ pc' = "loop_guard"
                 /\ poll_i' = 1
            ELSE /\ pc' = pc
                 /\ poll_i' = poll_i + 1
                 /\ UNCHANGED << state, flags >>
    /\ UNCHANGED << control_c, time, cancellation_token, signals,
                    ctrlc_handler, waiter, cause, calls, failed, dispatched,
                    ret, observers, observed, borrowed, cancelled, late_nexts >>

\* Runner::kill_cause().unwrap() and terminate_due_to: find() loads the
\* flags again, in attachment order; None makes unwrap panic
KillCause ==
    /\ pc = "kill_cause"
    /\ IF poll_i > Len(signals)
       THEN /\ pc' = "panicked"
            /\ UNCHANGED << state, poll_i >>
       ELSE IF is_dead(poll_i)
            THEN /\ state' = terminate_due_to(state, CauseOfCaller(signals[poll_i]))
                 /\ pc' = "loop_guard"
                 /\ poll_i' = 1
            ELSE /\ pc' = pc
                 /\ poll_i' = poll_i + 1
                 /\ state' = state
    /\ UNCHANGED << control_c, time, cancellation_token, signals, flags,
                    ctrlc_handler, waiter, cause, calls, failed, dispatched,
                    ret, observers, observed, borrowed, cancelled, late_nexts >>

\* `if state.is_terminated() { break }`: after the break the cause is mapped
\* and Runner::finalise calls calculation.finalise; otherwise Runner::once
\* calls calculation.next
LoopGuard ==
    /\ pc = "loop_guard"
    /\ IF is_terminated(state)
       THEN /\ cause' = ErrorCauseOf(termination_cause(state))
            /\ calls' = finalise(calls)
            /\ pc' = "finalising"
            /\ late_nexts' = late_nexts
       ELSE /\ state.max_iter = UsizeMax => current_iteration(state) < IterCap
            /\ cause' = cause
            /\ calls' = once(calls)
            /\ pc' = "in_next"
            /\ late_nexts' = IF \E i \in 1..Len(signals) : is_dead(i)
                             THEN late_nexts + 1 ELSE late_nexts
    /\ state' = take_specific(state)
    /\ UNCHANGED << control_c, time, cancellation_token, signals,
                    flags, ctrlc_handler, waiter, poll_i, failed, dispatched,
                    ret, observers, observed, borrowed, cancelled >>

\* a bug: once looks at the killswitches when calculation.next returns and,
\* finding one set, terminates at once without update or observer dispatch
NextReturns_KillAware(ok, e) ==
    /\ pc = "in_next"
    /\ IF ok
       THEN /\ IF \E i \in 1..Len(signals) : is_dead(i)
               THEN /\ state' = terminate_due_to(set_specific(state),
                                    CauseOfCaller(signals[
                                        CHOOSE i \in 1..Len(signals) : is_dead(i)]))
                    /\ dispatched' = dispatched
                    /\ observed' = observed
                    /\ borrowed' = borrowed
               ELSE /\ state' = update(increment_iteration(
                                    IF time THEN record_time(set_specific(state))
                                    ELSE set_specific(state)), e)
                    /\ dispatched' = Append(dispatched, "Iteration")
                    /\ observed' = ObserverVec_update(observers, observed,
                                        Observation("Iteration", state'))
                    /\ borrowed' = ObserverVec_update_subject(observers, borrowed,
                                        state')
            /\ pc' = "kill_signal_received"
            /\ UNCHANGED << failed, ret >>
       ELSE /\ failed' = "next"
            /\ ret' = FromUserError
            /\ pc' = "done"
            /\ UNCHANGED << state, dispatched, observed, borrowed >>
    /\ UNCHANGED << control_c, time, cancellation_token, signals, flags,
                    ctrlc_handler, waiter, poll_i, cause, calls, observers,
                    cancelled, late_nexts >>

\* a bug: once hands the state to the observers as soon as the user state is
\* back in it, before increment_iteration and update
NextReturns_DispatchFirst(ok, e) ==
    /\ pc = "in_next"
    /\ IF ok
       THEN /\ state' = update(increment_iteration(
                            IF time THEN record_time(set_specific(state))
                            ELSE set_specific(state)), e)
            /\ dispatched' = Append(dispatched, "Iteration")
            /\ observed' = ObserverVec_update(observers, observed,
                                Observation("Iteration", set_specific(state)))
            /\ borrowed' = ObserverVec_update_subject(observers, borrowed,
                                set_specific(state))
            /\ pc' = "kill_signal_received"
            /\ UNCHANGED << failed, ret >>
       ELSE /\ failed' = "next"
            /\ ret' = FromUserError
            /\ pc' = "done"
            /\ UNCHANGED << state, dispatched, observed, borrowed >>
    /\ UNCHANGED << control_c, time, cancellation_token, signals, flags,
                    ctrlc_handler, waiter, poll_i, cause, calls, observers,
                    cancelled, late_nexts >>

\* Runner::once from the return of calculation.next
NextReturns(ok, e) ==
    /\ pc = "in_next"
    /\ IF ok
       THEN /\ state' = update(increment_iteration(
                            IF time THEN record_time(set_specific(state))
                            ELSE set_specific(state)), e)
            /\ dispatched' = Append(dispatched, "Iteration")
            /\ observed' = ObserverVec_update(observers, observed,
                                Observation("Iteration", state'))
            /\ borrowed' = ObserverVec_update_subject(observers, borrowed,
                                state')
            /\ pc' = "kill_signal_received"
            /\ UNCHANGED << failed, ret >>
       ELSE /\ failed' = "next"
            /\ ret' = FromUserError
            /\ pc' = "done"
            /\ UNCHANGED << state, dispatched, observed, borrowed >>
    /\ UNCHANGED << control_c, time, cancellation_token, signals, flags,
                    ctrlc_handler, waiter, poll_i, cause, calls, observers,
                    cancelled, late_nexts >>

\* Runner::finalise from the return of calculation.finalise, and run's return
FinaliseReturns(ok) ==
    /\ pc = "finalising"
    /\ IF ok
       THEN /\ ret' = RunReturn(cause)
            /\ failed' = failed
       ELSE /\ ret' = FromUserError
            /\ failed' = "finalise"
    /\ pc' = "done"
    /\ UNCHANGED << control_c, time, cancellation_token, state, signals,
                    flags, ctrlc_handler, waiter, poll_i, cause, calls,
                    dispatched, observers, observed, borrowed, cancelled, late_nexts >>

(***************************************************************************)
(* Specifications                                                          *)
(***************************************************************************)
\* GenerateBuilder::build_for
Init ==
    /\ pc = "builder"
    /\ control_c = FALSE
    /\ time = TRUE
    /\ cancellation_token = "unit"
    /\ \E u \in BOOLEAN : state = NewState(u)
    /\ signals = << >>
    /\ flags = NoFlags
    /\ ctrlc_handler = "default"
    /\ waiter = "none"
    /\ poll_i = 1
    /\ cause = "None"
    /\ calls = << >>
    /\ failed = "none"
    /\ dispatched = << >>
    /\ ret = Pending
    /\ observers = << >>
    /\ observed = << >>
    /\ borrowed = << >>
    /\ cancelled = FALSE
    /\ late_nexts = 0

Next ==
    \/ \E b \in BOOLEAN : BuilderControlC(b)
    \/ \E b \in BOOLEAN : BuilderTime(b)
    \/ \E n \in 0..MaxN : BuilderConfigureMaxIters(n)
    \/ \E t \in Tolerances : BuilderConfigureTolerance(t)
    \/ BuilderWithCancellationToken
    \/ \E spawn_ok \in BOOLEAN : BuilderFinalise(spawn_ok)
    \/ WaiterRecvReturns
    \/ WaiterHandleKillSignal
    \/ CtrlCEvent
    \/ RunStart
    \/ \E ok \in BOOLEAN, e \in ErrorEstimates : InitialiseReturns(ok, e)
    \/ KillSignalReceived
    \/ KillCause
    \/ LoopGuard
    \/ \E ok \in BOOLEAN, e \in ErrorEstimates : NextReturns(ok, e)
    \/ \E ok \in BOOLEAN : FinaliseReturns(ok)

Spec == Init /\ [][Next]_vars

(***************************************************************************)
(* SpecPoll: the runner alone, started with the killswitch flags drawn     *)
(* from every combination of values, to exercise the poll and the mapping  *)
(* of every cause.                                                         *)
(***************************************************************************)
InitPoll ==
    /\ pc = "created"
    /\ control_c \in BOOLEAN
    /\ time \in BOOLEAN
    /\ cancellation_token \in {"unit", "taken"}
    /\ \E u \in BOOLEAN, n \in 0..MaxN, t \in Tolerances :
          state = relative_tolerance(max_iters(NewState(u), n), t)
    /\ signals = initialise_controllers(control_c,
                    IF cancellation_token = "taken" THEN "token" ELSE "unit")
    /\ flags \in [Callers -> BOOLEAN]
    /\ \A c \in Callers : flags[c] => \E i \in 1..Len(signals) : signals[i] = c
    /\ ctrlc_handler = "default"
    /\ waiter \in IF cancellation_token = "unit" THEN {"none"}
                  ELSE IF flags["Controller"]
                       THEN {"finished_ok", "finished_err"}
                       ELSE {"blocked"}
    /\ poll_i = 1
    /\ cause = "None"
    /\ calls = << >>
    /\ failed = "none"
    /\ dispatched = << >>
    /\ ret = Pending
    /\ observers = << >>
    /\ observed = << >>
    /\ borrowed = << >>
    /\ cancelled = FALSE
    /\ late_nexts = 0

NextPoll ==
    \/ RunStart
    \/ \E ok \in BOOLEAN, e \in ErrorEstimates : InitialiseReturns(ok, e)
    \/ KillSignalReceived
    \/ KillCause
    \/ LoopGuard
    \/ \E ok \in BOOLEAN, e \in ErrorEstimates : NextReturns(ok, e)
    \/ \E ok \in BOOLEAN : FinaliseReturns(ok)

SpecPoll == InitPoll /\ [][NextPoll]_vars

(***************************************************************************)
(* The state wrapper taken alone: a configured State on which update and   *)
(* increment_iteration are called in any order, with any estimates.        *)
(***************************************************************************)
\* State::update, the user state's update returning e
StateUpdate(e) ==
    /\ pc = "wrapper"
    /\ state.specific.updates < MaxUpdates
    /\ state' = update(state, e)
    /\ UNCHANGED << pc, control_c, time, cancellation_token, signals, flags,
                    ctrlc_handler, waiter, poll_i, cause, calls, failed,
                    dispatched, ret, observers, observed, borrowed, cancelled, late_nexts >>

\* State::increment_iteration
StateIncrementIteration ==
    /\ pc = "wrapper"
    /\ current_iteration(state) < IterCap
    /\ state' = increment_iteration(state)
    /\ UNCHANGED << pc, control_c, time, cancellation_token, signals, flags,
                    ctrlc_handler, waiter, poll_i, cause, calls, failed,
                    dispatched, ret, observers, observed, borrowed, cancelled, late_nexts >>

InitUpdate ==
    /\ pc = "wrapper"
    /\ control_c = FALSE
    /\ time = TRUE
    /\ cancellation_token = "unit"
    /\ \E u \in BOOLEAN, n \in 0..MaxN, t \in Tolerances :
          state = relative_tolerance(max_iters(NewState(u), n), t)
    /\ signals = << >>
    /\ flags = NoFlags
    /\ ctrlc_handler = "default"
    /\ waiter = "none"
    /\ poll_i = 1
    /\ cause = "None"
    /\ calls = << >>
    /\ failed = "none"
    /\ dispatched = << >>
    /\ ret = Pending
    /\ observers = << >>
    /\ observed = << >>
    /\ borrowed = << >>
    /\ cancelled = FALSE
    /\ late_nexts = 0

NextUpdate ==
    \/ \E e \in UpdateEstimates : StateUpdate(e)
    \/ StateIncrementIteration

SpecUpdate == InitUpdate /\ [][NextUpdate]_vars

(***************************************************************************)
(* The run under fairness: a runner as built, with max_iter set, whose     *)
(* thread keeps running and whose calculation phases all return.  Nothing  *)
(* is assumed of the waiter thread: the token may never fire.              *)
(***************************************************************************)
InitLive ==
    /\ pc = "created"
    /\ control_c \in BOOLEAN
    /\ time = TRUE
    /\ cancellation_token \in {"unit", "taken"}
    /\ \E u \in BOOLEAN, n \in 0..MaxN, t \in Tolerances :
          state = relative_tolerance(max_iters(NewState(u), n), t)
    /\ signals = initialise_controllers(control_c,
                    IF cancellation_token = "taken" THEN "token" ELSE "unit")
    /\ flags = NoFlags
    /\ ctrlc_handler = "default"
    /\ waiter = IF cancellation_token = "unit" THEN "none" ELSE "blocked"
    /\ poll_i = 1
    /\ cause = "None"
    /\ calls = << >>
    /\ failed = "none"
    /\ dispatched = << >>
    /\ ret = Pending
    /\ observers = << >>
    /\ observed = << >>
    /\ borrowed = << >>
    /\ cancelled = FALSE
    /\ late_nexts = 0

\* the steps of the thread that executes run
RunnerStep ==
    \/ RunStart
    \/ \E ok \in BOOLEAN, e \in ErrorEstimates : InitialiseReturns(ok, e)
    \/ KillSignalReceived
    \/ KillCause
    \/ LoopGuard
    \/ \E ok \in BOOLEAN, e \in ErrorEstimates : NextReturns(ok, e)
    \/ \E ok \in BOOLEAN : FinaliseReturns(ok)

NextLive ==
    \/ RunnerStep
    \/ WaiterRecvReturns
    \/ WaiterHandleKillSignal

SpecLive == InitLive /\ [][NextLive]_vars /\ WF_vars(RunnerStep)

(***************************************************************************)
(* The observed run: a builder without killswitches to which observers     *)
(* are attached, and the run of the runner it builds.                      *)
(***************************************************************************)
\* the iteration limits configured for the observed runs
ObsMaxIters == {0, ObsIterations - 1}

NextObs ==
    \/ \E f \in Frequencies : BuilderAttachObserver(f)
    \/ \E n \in ObsMaxIters : BuilderConfigureMaxIters(n)
    \/ \E t \in Tolerances : BuilderConfigureTolerance(t)
    \/ BuilderFinalise(TRUE)
    \/ \E a \in Arcs, f \in Frequencies : ObserversMutAttach(a, f)
    \/ \E a \in Arcs : ObserversMutDetach(a)
    \/ RunStart
    \/ \E ok \in BOOLEAN, e \in ErrorEstimates : InitialiseReturns(ok, e)
    \/ KillSignalReceived
    \/ LoopGuard
    \/ \E ok \in BOOLEAN, e \in ErrorEstimates : NextReturns(ok, e)
    \/ \E ok \in BOOLEAN : FinaliseReturns(ok)

SpecObs == Init /\ [][NextObs]_vars

(***************************************************************************)
(* SpecSeen: the runner alone as in SpecPoll, with at most one observer    *)
(* attached, whose Arc is either still held by the caller or dropped.      *)
(***************************************************************************)
\* the observer lists of the runs of SpecSeen
AttachedObservers ==
    { << >> } \cup { ObserverVec_attach(<< >>, IF strong THEN 1 ELSE Dropped,
                                        strong, f) :
                        strong \in BOOLEAN, f \in {Never, Always} }

InitSeen ==
    /\ pc = "created"
    /\ control_c \in BOOLEAN
    /\ time = TRUE
    /\ cancellation_token \in {"unit", "taken"}
    /\ \E u \in BOOLEAN, n \in 0..MaxN, t \in Tolerances :
          state = relative_tolerance(max_iters(NewState(u), n), t)
    /\ signals = initialise_controllers(control_c,
                    IF cancellation_token = "taken" THEN "token" ELSE "unit")
    /\ flags \in [Callers -> BOOLEAN]
    /\ \A c \in Callers : flags[c] => \E i \in 1..Len(signals) : signals[i] = c
    /\ ctrlc_handler = "default"
    /\ waiter = IF cancellation_token = "unit" THEN "none"
                ELSE IF flags["Controller"] THEN "finished_ok" ELSE "blocked"
    /\ poll_i = 1
    /\ cause = "None"
    /\ calls = << >>
    /\ failed = "none"
    /\ dispatched = << >>
    /\ ret = Pending
    /\ observers \in AttachedObservers
    /\ observed = [i \in 1..Len(observers) |-> << >>]
    /\ borrowed = << >>
    /\ cancelled = FALSE
    /\ late_nexts = 0

SpecSeen == InitSeen /\ [][NextPoll]_vars

(***************************************************************************)
(* SpecToken: a runner built with a tokio CancellationToken, the thread    *)
(* waiting on it, and the owner of the token, who may cancel it or not.    *)
(***************************************************************************)
InitToken ==
    /\ pc = "created"
    /\ control_c = FALSE
    /\ time = TRUE
    /\ cancellation_token = "taken"
    /\ \E u \in BOOLEAN, n \in 0..MaxN, t \in Tolerances :
          state = relative_tolerance(max_iters(NewState(u), n), t)
    /\ signals = initialise_controllers(control_c, "token")
    /\ flags = NoFlags
    /\ ctrlc_handler = "default"
    /\ waiter = "blocked"
    /\ poll_i = 1
    /\ cause = "None"
    /\ calls = << >>
    /\ failed = "none"
    /\ dispatched = << >>
    /\ ret = Pending
    /\ observers = << >>
    /\ observed = << >>
    /\ borrowed = << >>
    /\ cancelled = FALSE
    /\ late_nexts = 0

NextToken ==
    \/ RunnerStep
    \/ CancellationTokenRecvReturns
    \/ WaiterHandleKillSignal
    \/ TokenCancel

SpecToken == InitToken /\ [][NextToken]_vars

(***************************************************************************)
(* Properties                                                              *)
(***************************************************************************)
\* number of calls of phase made on the calculation
Count(phase) == Len(SelectSeq(calls, LAMBDA c : c = phase))

LastCall == IF calls = << >> THEN "none" ELSE calls[Len(calls)]

Terminated_ == state.termination_status.terminated

AnySignalSet == \E i \in 1..Len(signals) : flags[signals[i]]

\* C1: once termination_status is Terminated(_), whether update or a
\* killswitch poll set it, no step of the run calls the calculation's next.
C1_NoNextOnceTerminated ==
    [][Terminated_ => Count("next")' = Count("next")]_vars

\* a run ended by the token's killswitch after at least one iteration
C1_Witness ==
    /\ pc = "done"
    /\ state.termination_status = Terminated("Controller")
    /\ Count("next") >= 1
    /\ Count("finalise") = 1

\* C2: once termination_status is Terminated(c) it stays Terminated(c) for
\* the rest of the run, under every interleaving of killswitch firings.
C2_TerminatedIsNeverMutated ==
    [][Terminated_ => state'.termination_status = state.termination_status]_vars

\* C3: when the update after a next call yields error < relative_tolerance,
\* the run terminates with cause Converged (and so returns Ok when finalise
\* succeeds).
C3_ConvergedRunReturnsOk ==
    (/\ pc = "done"
     /\ failed = "none"
     /\ Count("next") >= 1
     /\ Lt(state.error, state.relative_tolerance))
    => /\ state.termination_status = Terminated("Converged")
       /\ ret = OkOutput

\* C4: with max_iter = N, at most N+1 next calls are made and iter never
\* exceeds N+1.
C4_AtMostNPlusOneIterations ==
    state.max_iter # UsizeMax =>
        /\ Count("next") <= state.max_iter + 1
        /\ state.iter <= state.max_iter + 1

\* the cap is met: N = 2, three iterations done
C4_Witness ==
    /\ pc = "done"
    /\ state.max_iter = 2
    /\ Count("next") = 3
    /\ state.iter = 3

\* C5: with max_iter = N, no error estimate below relative_tolerance, no
\* killswitch set and no user error, run returns Err(MaxIterExceeded) with
\* the output present after exactly N+1 next calls, with iter = N+1.
C5_MaxIterRun ==
    (/\ pc = "done"
     /\ state.max_iter # UsizeMax
     /\ failed = "none"
     /\ \A c \in Callers : ~flags[c]
     /\ ~Lt(state.best_error, state.relative_tolerance))
    => /\ ret = [kind |-> "Err", cause |-> "MaxIterExceeded", result |-> "Some"]
       /\ Count("next") = state.max_iter + 1
       /\ state.iter = state.max_iter + 1

\* scenario S2: max_iter = 5, relative_tolerance = 0, error 1 at the end
C5_Witness ==
    /\ pc = "done"
    /\ state.max_iter = 5
    /\ state.relative_tolerance = 0
    /\ state.best_error = 1
    /\ \A c \in Callers : ~flags[c]
    /\ ret = [kind |-> "Err", cause |-> "MaxIterExceeded", result |-> "Some"]
    /\ state.iter = 6

\* C6: when finalise succeeds, what run returns is determined by the final
\* cause: Converged gives Ok(output), and ControlC, Controller (Parent) and
\* ExceededMaxIterations give Err with cause ControlC, CancellationToken and
\* MaxIterExceeded, each with result Some(output).
C6_ReturnFollowsCause ==
    (pc = "done" /\ failed = "none") =>
        LET c == state.termination_status.cause
        IN  /\ c \in Causes
            /\ c = "Converged" =>
                 ret = [kind |-> "Ok", cause |-> "None", result |-> "Some"]
            /\ c = "ControlC" =>
                 ret = [kind |-> "Err", cause |-> "ControlC", result |-> "Some"]
            /\ c = "Controller" =>
                 ret = [kind |-> "Err", cause |-> "CancellationToken", result |-> "Some"]
            /\ c = "ExceededMaxIterations" =>
                 ret = [kind |-> "Err", cause |-> "MaxIterExceeded", result |-> "Some"]

\* a run ended by the Ctrl-C killswitch
C6_Witness ==
    /\ pc = "done"
    /\ failed = "none"
    /\ state.termination_status = Terminated("ControlC")
    /\ ret = [kind |-> "Err", cause |-> "ControlC", result |-> "Some"]

\* C7: a phase that returns an error makes run return at once Err with cause
\* User and no result; run reports User for nothing else; and after a failed
\* initialise or next, finalise is not called and no wrap-up stage is handed
\* to the observers.
C7_UserErrorPropagates ==
    /\ failed # "none" =>
         /\ pc = "done"
         /\ ret = [kind |-> "Err", cause |-> "User", result |-> "None"]
         /\ LastCall = failed
         /\ failed \in {"initialise", "next"} =>
              /\ Count("finalise") = 0
              /\ \A i \in 1..Len(dispatched) :
                    dispatched[i] \notin {"WrapUp", "Finalisation"}
    /\ ret.cause = "User" => failed # "none"
    /\ (pc = "done" /\ failed = "none") => ret.result = "Some"

\* next fails on the third iteration
C7_Witness ==
    /\ failed = "next"
    /\ pc = "done"
    /\ Count("next") = 3
    /\ Len(dispatched) >= 2

\* C8: finalise is never called more than once, and a run whose loop ended
\* with a termination cause has called it exactly once, as its last call.
C8_FinaliseOnce ==
    /\ Count("finalise") <= 1
    /\ (pc \in {"finalising", "done"} /\ failed \notin {"initialise", "next"}) =>
         /\ Terminated_
         /\ Count("finalise") = 1
         /\ LastCall = "finalise"

\* a run ended by the iteration cap, finalised after its last next
C8_Witness ==
    /\ pc = "done"
    /\ state.termination_status = Terminated("ExceededMaxIterations")
    /\ Count("next") >= 2
    /\ calls[Len(calls) - 1] = "next"
    /\ LastCall = "finalise"

\* C9: a poll that finds a killswitch set reports the first set one in
\* attachment order: ControlC when the Ctrl-C killswitch is attached and set
\* (also when the token's is set too), CancellationToken when only the
\* token's is set, whether or not an unset Ctrl-C killswitch precedes it.
C9_FirstSetKillswitchWins ==
    (/\ pc \in {"loop_guard", "finalising", "done"}
     /\ failed # "initialise"
     /\ AnySignalSet)
    => /\ state.termination_status =
            Terminated(IF control_c /\ flags["CtrlC"] THEN "ControlC"
                       ELSE "Controller")
       /\ (pc = "done" /\ failed = "none") =>
            ret.cause = (IF control_c /\ flags["CtrlC"] THEN "ControlC"
                         ELSE "CancellationToken")

\* both killswitches set at the first poll
C9_Witness ==
    /\ pc = "done"
    /\ flags["CtrlC"]
    /\ flags["Controller"]
    /\ ret = [kind |-> "Err", cause |-> "ControlC", result |-> "Some"]

\* C10: with Ctrl-C enabled on the builder, finalise installs a handler that
\* stores true into the CtrlC killswitch, so a Ctrl-C delivered while the run
\* is iterating is answered by that store (and the run then ends with
\* ControlC), never by the process's default disposition.
C10_CtrlCIsHandled ==
    control_c => pc # "killed"

KillCauses == {"ControlC", "Controller"}

\* C11: cancellation is cooperative.  A step that writes a killswitch cause
\* into the termination status is the loop head's step (never a step of a
\* phase), is taken before finalise has been called, and leads to the loop's
\* termination test; and a phase that returns Ok completes its update and its
\* observer dispatch and writes no killswitch cause, whatever the flags hold.
C11_CancellationIsCooperative ==
    [][ /\ ( /\ state'.termination_status # state.termination_status
             /\ state'.termination_status.cause \in KillCauses )
          => /\ pc = "kill_cause"
             /\ pc' = "loop_guard"
             /\ Count("finalise") = 0
             /\ calls' = calls
             /\ dispatched' = dispatched
        /\ ( pc \in {"initialising", "in_next"} /\ pc' = "kill_signal_received" )
          => /\ state'.specific.updates = state.specific.updates + 1
             /\ Len(dispatched') = Len(dispatched) + 1
             /\ state'.termination_status.cause \notin KillCauses ]_vars

\* a killswitch was set while next was executing: the phase completed with
\* its update and dispatch, and the loop head has just recorded the cause
C11_Witness ==
    /\ pc = "loop_guard"
    /\ state.termination_status = Terminated("Controller")
    /\ LastCall = "next"
    /\ state.specific.updates = Count("initialise") + Count("next")
    /\ Len(dispatched) = Count("initialise") + Count("next")
    /\ state.error # PosInf

\* C12: once the waiter thread's blocking_recv_kill_signal has returned and
\* the thread has gone on, the Controller killswitch is true, whether the
\* receive returned Ok or Err; the step that follows the return is the store.
C12_RecvReturnSetsKillswitch ==
    /\ [](waiter \in {"finished_ok", "finished_err"} => flags["Controller"])
    /\ [][ (waiter \in {"returned_ok", "returned_err"} /\ waiter' # waiter)
             => flags'["Controller"] = TRUE ]_vars

\* the receive returned Err and the killswitch was set all the same
C12_Witness ==
    /\ waiter = "finished_err"
    /\ flags["Controller"]

\* C13: every killswitch flag starts false and is monotone: a flag that is
\* true stays true, and a flag changes only by the store of its own producer
\* (the waiter thread's closure for Controller, a registered Ctrl-C handler
\* for CtrlC).
C13_FlagsAreMonotone ==
    /\ flags = NoFlags
    /\ [][ /\ \A c \in Callers : flags[c] => flags'[c]
           /\ flags'["Controller"] # flags["Controller"]
                => /\ waiter \in {"returned_ok", "returned_err"}
                   /\ waiter' \in {"finished_ok", "finished_err"}
           /\ flags'["CtrlC"] # flags["CtrlC"]
                => /\ ctrlc_handler = "store_flag"
                   /\ UNCHANGED << waiter, state, pc >> ]_vars

\* the Controller flag, set by the waiter, has been read by the loop head and
\* is still set when run has returned
C13_Witness ==
    /\ pc = "done"
    /\ ret = TrellisError("CancellationToken")
    /\ flags["Controller"]
    /\ ~flags["CtrlC"]

\* a step in which State::update was called
UpdateStep == state'.specific.updates = state.specific.updates + 1

\* a <= b on floats: false when either side is NaN
Le(a, b) == a # NaN /\ b # NaN /\ a <= b

\* C14: best_error is non-increasing across successive update calls, whatever
\* estimates the user state returns.
C14_BestErrorNonIncreasing ==
    [][UpdateStep => Le(state'.best_error, state.best_error)]_vars

\* best_error came down twice, and a later, worse estimate left it alone
C14_Witness ==
    /\ pc = "wrapper"
    /\ state.specific.updates = 3
    /\ state.best_error = 0
    /\ state.prev_best_error = 1
    /\ state.error = PosInf

\* C15: last_best_iter <= iter in every state of the wrapper, under any
\* sequence of increment_iteration and update calls.
C15_LastBestIterAtMostIter == state.last_best_iter <= state.iter

\* a best update at a later iteration, then further iterations without one
C15_Witness ==
    /\ pc = "wrapper"
    /\ state.specific.updates >= 2
    /\ state.last_best_iter >= 1
    /\ state.iter > state.last_best_iter

\* C16: after every update prev_error is the value error had before the
\* update, and after a best update prev_best_error is the value best_error
\* had before it.
C16_PrevValuesAreKept ==
    [][UpdateStep =>
          /\ state'.prev_error = state.error
          /\ state'.specific.bests = 1
                => state'.prev_best_error = state.best_error]_vars

\* C17, as stated: after every completed update, best_error <= error.
C17_BestAtMostError ==
    state.specific.updates >= 1 => Le(state.best_error, state.error)

\* C17, amended: after every completed update whose error estimate is not
\* NaN, best_error <= error (both being +infinity included).
C17_BestAtMostErrorUnlessNaN ==
    (state.specific.updates >= 1 /\ state.error # NaN)
        => Le(state.best_error, state.error)

\* updates have completed and the last estimate, not NaN and not the best,
\* lies above best_error
C17_Witness ==
    /\ pc = "wrapper"
    /\ state.specific.updates >= 2
    /\ state.error = 1
    /\ state.best_error = 0

\* C18: an update with estimate e is a best update iff e < best_error or e
\* and best_error are both infinite with the same sign; a best update sets
\* best_error to e and last_best_iter to iter and calls last_was_best exactly
\* once, any other update does none of the three; the first update of a
\* fresh state with estimate +infinity is a best update.
C18_BestUpdate ==
    [][UpdateStep =>
          LET e == state'.error
              b == state.best_error
              best == \/ (e # NaN /\ b # NaN /\ e < b)
                      \/ (e \in {PosInf, NegInf} /\ e = b)
          IN  /\ IF best
                 THEN /\ state'.best_error = e
                      /\ state'.last_best_iter = state.iter
                      /\ state'.specific.bests = 1
                 ELSE /\ state'.best_error = b
                      /\ state'.last_best_iter = state.last_best_iter
                      /\ state'.specific.bests = 0
              /\ (state.specific.updates = 0 /\ e = PosInf)
                    => state'.specific.bests = 1 ]_vars

\* the first update of a fresh state returned +infinity and was a best update
C18_Witness ==
    /\ pc = "wrapper"
    /\ state.specific.updates = 1
    /\ state.specific.bests = 1
    /\ state.error = PosInf
    /\ state.best_error = PosInf
    /\ state.last_best_iter = state.iter

\* C19: once the status is Terminated(c), an update leaves c unchanged,
\* whatever estimate the user state returns.
C19_UpdateKeepsCause ==
    [][(UpdateStep /\ state.termination_status.terminated)
          => state'.termination_status = state.termination_status]_vars

\* C20: while the wrapper holds the user state, the wrapper's is_initialised
\* is true iff the user state's is_initialised reports true; this for both
\* implementations of the wrapper, State and CoreState.
C20_IsInitialisedFollowsUserState ==
    state.some =>
        /\ is_initialised(state) <=> state.specific.is_initialised
        /\ CoreState_is_initialised(state) <=> state.specific.is_initialised

\* run has started
RunStarted == pc \notin {"builder", "created", "build_failed"}

\* C21: the calculation's initialise is called at most once per run and
\* before any next; once run has started it has been called exactly when the
\* wrapped state reported not-initialised; a state that reports initialised
\* gets no update and no Initialisation event from the initialise phase.
C21_InitialiseOnceIffNotInitialised ==
    /\ Count("initialise") <= 1
    /\ \A i \in 1..Len(calls) : calls[i] = "initialise" => i = 1
    /\ RunStarted => (Count("initialise") = 1 <=> ~state.specific.is_initialised)
    /\ state.specific.is_initialised
         => /\ \A i \in 1..Len(dispatched) : dispatched[i] # "Initialisation"
            /\ state.specific.updates <= Count("next")

\* a state that reported initialised ran to the end without initialise
C21_Witness ==
    /\ pc = "done"
    /\ state.specific.is_initialised
    /\ Count("initialise") = 0
    /\ Count("next") >= 2
    /\ state.specific.updates = Count("next")
    /\ Count("finalise") = 1

\* C22: when the update inside the initialise phase terminates the state
\* (the initial error is below relative_tolerance), next is never called,
\* finalise is the next call, and run returns according to that cause, Ok
\* for Converged, with iter = 0.
C22_TerminationInInitialise ==
    (/\ Count("initialise") = 1
     /\ state.specific.updates = 1
     /\ Lt(state.error, state.relative_tolerance)
     /\ pc \notin {"initialising", "killed"})
    => /\ Count("next") = 0
       /\ state.iter = 0
       /\ (pc = "done" /\ failed = "none")
            => /\ calls = << "initialise", "finalise" >>
               /\ state.termination_status = Terminated("Converged")
               /\ ret = OkOutput

\* the dispatches the runner has made, each with the iteration number of the
\* state it handed over (iter is incremented before the Iteration dispatch)
Dispatches ==
    [j \in 1..Len(dispatched) |->
        [stage |-> dispatched[j],
         iter |-> Len(SelectSeq(SubSeq(dispatched, 1, j),
                                LAMBDA st : st = "Iteration"))]]

\* the gate of the dispatch rule: whether frequency f fires for observation ob
Fires(f, ob) ==
    CASE ob.stage = "Iteration" ->
            f = Always \/ (f.kind = "Every" /\ ob.iter % f.n = 0)
      [] ob.stage = "Initialisation" -> f.kind \in {"Always", "Every"}
      [] OTHER -> f.kind \in {"Always", "Last"}

\* C23: dispatch is gated by frequency: an observer that is alive has
\* observed, in order, exactly the dispatches for which its frequency fires
\* (Iteration: Always, or Every(n) with iter mod n = 0; Initialisation:
\* Always or Every; wrap-up: Always or Last; Never: none).
C23_DispatchIsGatedByFrequency ==
    \A i \in 1..Len(observers) :
        observers[i].strong =>
            observed[i] = SelectSeq(Dispatches,
                              LAMBDA ob : Fires(observers[i].frequency, ob))

\* the Iteration events observer i has received
IterationEvents(i) ==
    Len(SelectSeq(observed[i], LAMBDA ob : ob.stage = "Iteration"))

\* C24: with an Always observer and an Every(3) observer attached, a run of
\* 10 iterations delivers 10 Iteration events to the first and 4 to the
\* second.
C24_ScenarioFrequencyGating ==
    (/\ pc = "done"
     /\ failed = "none"
     /\ Count("next") = 10
     /\ Len(observers) = 2
     /\ observers[1].frequency = Always
     /\ observers[2].frequency = Every(3))
    => /\ IterationEvents(1) = 10
       /\ IterationEvents(2) = 4

\* the stages observer i has been handed, in order
StagesObserved(i) == [j \in 1..Len(observed[i]) |-> observed[i][j].stage]

\* C25: a run that starts from a not-initialised state and converges after k
\* next calls, with no kill and no user error, returns Ok with iter = k, and a
\* live observer attached with Always has received one Initialisation event,
\* then k Iteration events, then one wrap-up (Stage::Finalisation) event.
C25_ConvergingRunIsObserved ==
    (/\ pc = "done"
     /\ failed = "none"
     /\ ~state.specific.is_initialised
     /\ state.termination_status = Terminated("Converged"))
    => /\ ret = OkOutput
       /\ state.iter = Count("next")
       /\ \A i \in 1..Len(observers) :
             (observers[i].strong /\ observers[i].frequency = Always)
             => StagesObserved(i) =
                   << "Initialisation" >>
                   \o [j \in 1..Count("next") |-> "Iteration"]
                   \o << "Finalisation" >>

\* C26: an attached observer stays alive for the whole run: every dispatch
\* for which its frequency fires reaches it; so an observer attached with
\* Always has observed every dispatch the runner has made.
C26_ObserversStayAlive ==
    RunStarted =>
        \A i \in 1..Len(observers) :
            observers[i].frequency = Always
                => Len(observed[i]) = Len(dispatched)

\* the waiter thread could not be spawned
SpawnFailed == cancellation_token = "taken" /\ waiter = "none"

\* C27: when spawning the token waiter thread fails (installing the Ctrl-C
\* handler cannot fail), the builder's finalise returns an error and no
\* runner: run never starts and no calculation phase is executed.
C27_BuildFailureStopsBeforeRun ==
    /\ [](SpawnFailed => /\ pc = "build_failed"
                         /\ calls = << >>
                         /\ dispatched = << >>
                         /\ state.specific.updates = 0
                         /\ ret = Pending)
    /\ [][pc = "build_failed" => pc' = "build_failed"]_vars

\* a builder with Ctrl-C enabled and a token whose waiter could not be spawned
C27_Witness ==
    /\ pc = "build_failed"
    /\ SpawnFailed
    /\ control_c

\* finalise has returned a runner
RunnerBuilt == pc \notin {"builder", "build_failed"}

\* C28: in the runner the builder's finalise returns, the killswitch list
\* holds a CtrlC killswitch iff Ctrl-C was enabled and a Controller (parent)
\* killswitch iff a token was attached, with one waiter thread per token; at
\* most one killswitch per holder, CtrlC first; all flags are false until a
\* producer has acted.  Hence run reports ControlC only if Ctrl-C was enabled
\* and CancellationToken only if a token was attached.
C28_KillswitchesFollowConfiguration ==
    RunnerBuilt =>
        /\ (\E i \in 1..Len(signals) : signals[i] = "CtrlC") <=> control_c
        /\ (\E i \in 1..Len(signals) : signals[i] = "Controller")
              <=> cancellation_token = "taken"
        /\ \A i, j \in 1..Len(signals) :
              /\ signals[i] = signals[j] => i = j
              /\ (signals[i] = "CtrlC" /\ signals[j] = "Controller") => i < j
        /\ waiter # "none" <=> cancellation_token = "taken"
        /\ waiter \in {"none", "blocked", "returned_ok", "returned_err"}
              => flags = NoFlags
        /\ ret.cause = "ControlC" => control_c
        /\ ret.cause = "CancellationToken" => cancellation_token = "taken"

\* both killswitches attached, and the run ended by the token
C28_Witness ==
    /\ pc = "done"
    /\ signals = << "CtrlC", "Controller" >>
    /\ ret = TrellisError("CancellationToken")

\* the four configuration operations, numbered, with their arguments
BuilderOp(k, bd, b, tm, n, tol) ==
    CASE k = 1 -> control_c_(bd, b)
      [] k = 2 -> time_(bd, tm)
      [] k = 3 -> configure(bd, relative_tolerance(max_iters(bd.state, n), tol))
      [] OTHER -> with_cancellation_token(bd)

\* the orders in which the four operations can be applied
Orders == {p \in [1..4 -> 1..4] : \A i, j \in 1..4 : p[i] = p[j] => i = j}

\* the Builder after the four operations, applied in the order p
Configured(p, bd, b, tm, n, tol) ==
    BuilderOp(p[4],
        BuilderOp(p[3],
            BuilderOp(p[2],
                BuilderOp(p[1], bd, b, tm, n, tol), b, tm, n, tol),
            b, tm, n, tol),
        b, tm, n, tol)

\* what finalise makes of a Builder: the runner's flags, state and killswitches
RunnerOf(bd) ==
    [ control_c |-> bd.control_c, time |-> bd.time, state |-> bd.state,
      observers |-> bd.observers,
      signals |-> initialise_controllers(bd.control_c, bd.cancellation_token) ]

\* C29: the builder's configuration operations are order-independent: from
\* any Builder without a token, control_c(b), time(t), configure(f) and
\* with_cancellation_token applied in any order give the same runner (flags,
\* max_iter, relative_tolerance, killswitches); with_cancellation_token
\* changes nothing but the token.
C29_BuilderOrderIndependent ==
    (pc = "builder" /\ cancellation_token = "unit") =>
        /\ \A b, tm \in BOOLEAN, n \in 0..MaxN, tol \in Tolerances :
              LET first == RunnerOf(Configured([i \in 1..4 |-> i],
                                               TheBuilder, b, tm, n, tol))
              IN  \A p \in Orders :
                     RunnerOf(Configured(p, TheBuilder, b, tm, n, tol)) = first
        /\ with_cancellation_token(TheBuilder)
              = [TheBuilder EXCEPT !.cancellation_token = "token"]

\* a runner built after all four operations were applied, the token last
C29_Witness ==
    /\ pc = "created"
    /\ control_c
    /\ ~time
    /\ cancellation_token = "taken"
    /\ state.max_iter = 2
    /\ state.relative_tolerance = 0
    /\ signals = << "CtrlC", "Controller" >>

\* C30: with max_iter a finite N and every phase returning, run eventually
\* returns, after at most N+1 iterations, whether or not the run converges
\* and even if the attached token never fires.
C30_RunReturns ==
    /\ <>(pc = "done")
    /\ [](Count("next") <= state.max_iter + 1)

\* a run with a token that never fired has returned after N+1 iterations
C30_Witness ==
    /\ pc = "done"
    /\ waiter = "blocked"
    /\ state.max_iter = 2
    /\ Count("next") = 3
    /\ ret = TrellisError("MaxIterExceeded")

\* C31: in update the convergence check comes before the max-iteration
\* check: an update that leaves error < relative_tolerance and iter > max_iter
\* terminates the state with Converged, and a run whose last update did so
\* returns Ok.
C31_ConvergedBeforeMaxIter ==
    /\ [][(/\ UpdateStep
            /\ Lt(state'.error, state'.relative_tolerance)
            /\ state'.iter > state'.max_iter)
           => state'.termination_status = Terminated("Converged")]_vars
    /\ []((/\ pc = "done"
            /\ failed = "none"
            /\ state.specific.updates >= 1
            /\ Lt(state.error, state.relative_tolerance)
            /\ state.iter > state.max_iter)
           => ret = OkOutput)

\* C32: the runner calls update after every phase, wrap-up included: a run
\* that executes initialise and k next calls, and whose finalise returns Ok,
\* has invoked the user state's update exactly k + 2 times.
C32_UpdateAfterEveryPhase ==
    (pc = "done" /\ failed = "none" /\ Count("initialise") = 1)
        => state.specific.updates = Count("next") + 2

\* C33: the observers of a stage are called after the state mutations of
\* that stage: at Stage::Iteration the state lent to them has iter already
\* incremented and is the state the update of that iteration returned, with
\* its error, its best error and the termination status it set, so the
\* iteration whose update terminates the state is dispatched with a
\* terminated state; likewise at Stage::Initialisation.
C33_ObserversSeeTheUpdatedState ==
    [][/\ (pc = "in_next" /\ pc' = "kill_signal_received")
            => /\ dispatched' = Append(dispatched, "Iteration")
               /\ \A i \in 1..Len(observers) :
                     observers[i].strong
                        => /\ observed'[i] = Append(observed[i],
                                                Observation("Iteration", state'))
                           /\ borrowed' = << state' >>
                           /\ borrowed'[1].iter = state.iter + 1
                           /\ borrowed'[1].specific.updates
                                    = state.specific.updates + 1
                           /\ \E e \in ErrorEstimates :
                                 /\ borrowed'[1].error = e
                                 /\ borrowed'[1].best_error
                                        = update(increment_iteration(state), e).best_error
                                 /\ borrowed'[1].termination_status
                                        = update(increment_iteration(state), e).termination_status
       /\ (pc = "initialising" /\ pc' = "kill_signal_received")
            => /\ dispatched' = Append(dispatched, "Initialisation")
               /\ \A i \in 1..Len(observers) :
                     observers[i].strong
                        => /\ observed'[i] = Append(observed[i],
                                                Observation("Initialisation", state'))
                           /\ borrowed' = << state' >>
                           /\ borrowed'[1].specific.updates
                                    = state.specific.updates + 1
      ]_vars

\* an observer was handed, at Stage::Iteration, the state its update had
\* just terminated
C33_Witness ==
    /\ pc = "kill_signal_received"
    /\ \E i \in 1..Len(observers) :
          /\ observers[i].strong
          /\ observed[i] # << >>
          /\ observed[i][Len(observed[i])] = Observation("Iteration", state)
    /\ borrowed = << state >>
    /\ state.iter >= 2
    /\ state.termination_status = Terminated("Converged")

\* C34: the wait of the cancellation source blocks: with a CancellationToken
\* the waiter thread's blocking_recv_kill_signal does not return, the
\* Controller killswitch is not set and the run does not end with the
\* token's cause, while the token has not been cancelled.
C34_WaitBlocksUntilCancelled ==
    ~cancelled =>
        /\ waiter \in {"none", "blocked"}
        /\ ~flags["Controller"]
        /\ state.termination_status # Terminated("Controller")
        /\ ret.cause # "CancellationToken"

\* C35: a killswitch producer (the Ctrl-C handler, the waiter thread) does a
\* single store of true into its own flag and changes nothing else: the
\* state wrapper with the user state, the other flag and everything the
\* runner holds are unchanged by a producer's step, and termination_status
\* changes only in a step of the thread that executes run.
C35_ProducersOnlyStoreTheirFlag ==
    [][/\ flags' # flags
            => /\ \E c \in Callers :
                     /\ ~flags[c]
                     /\ flags' = [flags EXCEPT ![c] = TRUE]
                     /\ c = "Controller" => waiter' # waiter
                     /\ c = "CtrlC" => ctrlc_handler = "store_flag"
               /\ UNCHANGED << pc, control_c, time, cancellation_token, state,
                               signals, ctrlc_handler, poll_i, cause, calls,
                               failed, dispatched, ret, observers, observed,
                               borrowed >>
       /\ (waiter \in {"blocked", "returned_ok", "returned_err"}
                /\ waiter' # waiter)
            => UNCHANGED << pc, control_c, time, cancellation_token, state,
                            signals, ctrlc_handler, poll_i, cause, calls,
                            failed, dispatched, ret, observers, observed,
                            borrowed >>
       /\ state'.termination_status # state.termination_status
            => /\ pc \in {"initialising", "kill_cause", "in_next"}
               /\ pc' # pc
               /\ UNCHANGED << flags, waiter >>
      ]_vars

\* the waiter thread stored its flag while the runner was inside
\* calculation.next, and the state is still not terminated
C35_Witness ==
    /\ pc = "in_next"
    /\ flags["Controller"]
    /\ waiter \in {"finished_ok", "finished_err"}
    /\ state.iter >= 1
    /\ ~state.termination_status.terminated

\* C37: the loop head loads the flags twice, in kill_signal_received and
\* then in kill_cause; under every interleaving with the producers kill_cause
\* finds a set flag whenever kill_signal_received has returned true, so
\* unwrap never panics, and the cause mapped after the loop is never None,
\* so unreachable!() is never reached.
C37_KillCauseNeverNone ==
    /\ pc # "panicked"
    /\ pc = "kill_cause" => \E i \in 1..Len(signals) : is_dead(i)
    /\ pc = "finalising" => termination_cause(state) # "None"

\* the poll went past an unset Ctrl-C flag, found the Controller flag set,
\* and kill_cause found it again
C37_Witness ==
    /\ pc = "loop_guard"
    /\ signals = << "CtrlC", "Controller" >>
    /\ ~flags["CtrlC"]
    /\ state.termination_status = Terminated("Controller")
    /\ state.iter >= 1

\* C38: the response to a cancellation is bounded: once a killswitch flag
\* is true at most one further next call is started, and, the phases of
\* the calculation returning, run then returns; when that further call was
\* started and the phases returned Ok, run returns the cause of a killswitch.
C38_BoundedResponse ==
    /\ [](late_nexts <= 1)
    /\ []((pc = "done" /\ failed = "none" /\ late_nexts = 1)
            => ret \in {TrellisError("ControlC"),
                        TrellisError("CancellationToken")})
    /\ (\E i \in 1..Len(signals) : is_dead(i)) ~> (pc = "done")

\* a killswitch was set after the loop head had loaded it, one more next
\* call was started, and the following loop head ended the run
C38_Witness ==
    /\ pc = "done"
    /\ late_nexts = 1
    /\ Count("next") >= 2
    /\ ret = TrellisError("CancellationToken")

\* C39: with a killswitch already set when run starts, initialise is still
\* called when the state reports not-initialised, next is never called, and,
\* the phases succeeding, finalise is called once and run returns Err with
\* the cause of the first set killswitch and Some(output); iter stays 0.
C39_KilledBeforeRun ==
    (\E i \in 1..Len(signals) : is_dead(i)) =>
        /\ Count("next") = 0
        /\ state.iter = 0
        /\ (RunStarted /\ ~state.specific.is_initialised)
                => calls # << >> /\ calls[1] = "initialise"
        /\ (pc = "done" /\ failed = "none")
                => /\ Count("finalise") = 1
                   /\ Count("initialise")
                        = (IF state.specific.is_initialised THEN 0 ELSE 1)
                   /\ ret = TrellisError(ErrorCauseOf(CauseOfCaller(
                            signals[CHOOSE i \in 1..Len(signals) :
                                /\ is_dead(i)
                                /\ \A j \in 1..(i - 1) : ~is_dead(j)])))
                   /\ ret.result = "Some"

\* a run started with the token's killswitch set: initialise, then finalise
C39_Witness ==
    /\ pc = "done"
    /\ flags["Controller"]
    /\ calls = << "initialise", "finalise" >>
    /\ ret = TrellisError("CancellationToken")
    /\ state.iter = 0

\* C40: at every loop head and when run has returned, iter is the number of
\* next calls that returned Ok: it starts at 0 and is incremented once per
\* successful next, and not by initialise, by finalise, by a killswitch
\* termination or by a next that failed.
C40_IterCountsSuccessfulNexts ==
    /\ pc \in {"builder", "created", "initialising"} => state.iter = 0
    /\ pc \in {"kill_signal_received", "kill_cause", "loop_guard",
                "finalising", "done"}
            => /\ state.iter = Count("next")
                                - (IF failed = "next" THEN 1 ELSE 0)
               /\ state.iter = Len(SelectSeq(dispatched,
                                    LAMBDA st : st = "Iteration"))
    /\ pc = "in_next" => state.iter = Count("next") - 1

\* two next calls returned Ok, the third failed: iter is 2
C40_Witness ==
    /\ pc = "done"
    /\ failed = "next"
    /\ Count("next") = 3
    /\ Count("initialise") = 1
    /\ state.iter = 2

====
